---- MODULE Spec2Model ----
(***************************************************************************)
(* A model of the variant picker of src/assets/variant-picker.js: the      *)
(* option controls, the request-URL builders, the HTML cache, the idle     *)
(* prefetch passes and the user-triggered fetch with its abort controller. *)
(*                                                                         *)
(* The handlers of the class are operators from an instance state (a       *)
(* record `s`) to the instance state after the handler, so that a handler  *)
(* that calls another one is the composition of the two.  Every action of  *)
(* the specification is one task of the browser's event loop: a DOM event, *)
(* an idle callback, or the settling of a fetch with the promise           *)
(* callbacks that run in the same turn.                                    *)
(***************************************************************************)
EXTENDS Integers, Sequences, FiniteSets, Bags, TLC

(***************************************************************************)
(* Bounds of the model.                                                    *)
(***************************************************************************)
\* Number of change events a behaviour delivers to the picker.
MaxSelections == 2
\* Number of times the element is attached to the document.
MaxAttach == 1
\* The cache of SpecFull starts with at most this many free slots.
MaxFree == 1

(***************************************************************************)
(* Program constant.                                                       *)
(***************************************************************************)
MAX_CACHE_SIZE == 50

(***************************************************************************)
(* Product URLs.  "/products/a?_pos=1" is the form product.url takes in a  *)
(* search-result card; StripQuery is productUrl.split('?')[0] and HasQuery *)
(* is productUrl.includes('?').                                            *)
(***************************************************************************)
undefined == "undefined"
UrlA == "/products/a"
UrlAq == "/products/a?_pos=1"
UrlB == "/products/b"

HasQuery(u) == u = UrlAq
StripQuery(u) == IF HasQuery(u) THEN UrlA ELSE u

(***************************************************************************)
(* The option controls of the picker markup: two fieldsets of radio        *)
(* inputs in document order, identified by their data-option-value-id.     *)
(*   1 "Red"    2 "Blue" (combined listing: another product)               *)
(*   3 "Red"    a second value with the display name of 1                  *)
(*   4 "Green"                                                             *)
(*   11 "S"     12 "M" (no variant for it: no data-variant-id)             *)
(* Which labels the server rendered hidden is part of the state.           *)
(***************************************************************************)
Colors == {1, 2, 3, 4}
Sizes == {11, 12}
OptionValues == Colors \cup Sizes

\* option.closest('fieldset'): the position of the fieldset in the document.
closestFieldset(option) == IF option \in Colors THEN 1 ELSE 2

\* fieldset.querySelector('.variant-option__name').textContent
legendText(fieldset) == IF fieldset = 1 THEN "Colour" ELSE "Size"

\* String.prototype.toLowerCase on the legends of the markup.
toLowerCase(text) ==
    CASE text = "Colour" -> "colour"
      [] text = "Size" -> "size"
      [] OTHER -> text

\* The lower-case legends that include 'color', 'colour' or 'renk'.
ColorLegends == {"color", "colour", "renk", "renk / colour"}

\* input.value: the display name of the value.
optionValue(option) ==
    CASE option = 1 -> "Red"
      [] option = 2 -> "Blue"
      [] option = 3 -> "Red"
      [] option = 4 -> "Green"
      [] option = 11 -> "S"
      [] option = 12 -> "M"

\* option.dataset.connectedProductUrl
connectedProductUrl(option) == IF option = 2 THEN UrlB ELSE undefined

\* option.dataset.variantId
variantId(option) ==
    CASE option = 1 -> "v1"
      [] option = 2 -> "v2"
      [] option = 3 -> "v3"
      [] option = 4 -> "v4"
      [] option = 11 -> "v11"
      [] option = 12 -> undefined

\* #isColorOption(element)
isColorOption(element) ==
    toLowerCase(legendText(closestFieldset(element))) \in ColorLegends

\* Mutant: the change is never taken for a color change.
isColorOptionChange_Never(target) == FALSE

\* #isColorOptionChange(target)
isColorOptionChange(target) == isColorOption(target)

(***************************************************************************)
(* Request URLs.  A URL `${productUrl}?option_values=${ids.join(',')}` is  *)
(* the record of its parts; section marks the card form                    *)
(* `${productUrl}?section_id=section-rendering-product-card&...`.          *)
(***************************************************************************)
Url(productUrl, section, ids) ==
    [productUrl |-> productUrl, section |-> section, ids |-> ids]

\* get selectedOptionsValues(): the ids of the checked inputs, in document order.
selectedOptionsValues(s) == s.checked

\* buildRequestUrl(selectedOption): the value of productUrl before the card case.
requestProductUrl(s, selectedOption) ==
    IF connectedProductUrl(selectedOption) # undefined
    THEN connectedProductUrl(selectedOption)
    ELSE IF s.pendingRequestUrl # undefined
         THEN s.pendingRequestUrl
         ELSE s.productUrl

\* buildRequestUrl(selectedOption): the URL it returns.
buildRequestUrl(s, selectedOption) ==
    LET productUrl == requestProductUrl(s, selectedOption) IN
    IF s.inCard
    THEN Url(IF HasQuery(productUrl) THEN StripQuery(productUrl) ELSE productUrl,
             TRUE, selectedOptionsValues(s))
    ELSE Url(productUrl, FALSE, selectedOptionsValues(s))

\* #buildHoverUrl(option): the checked ids with the one of option's fieldset
\* replaced by option.
buildHoverUrl(s, option) ==
    LET optionValueIds ==
            [i \in 1..Len(s.checked) |->
                IF i = closestFieldset(option) THEN option ELSE s.checked[i]]
        productUrl ==
            IF connectedProductUrl(option) # undefined
            THEN connectedProductUrl(option)
            ELSE s.productUrl
    IN  IF s.inCard
        THEN Url(IF HasQuery(productUrl) THEN StripQuery(productUrl) ELSE productUrl,
                 TRUE, optionValueIds)
        ELSE Url(productUrl, FALSE, optionValueIds)

(***************************************************************************)
(* Markup.  The markup a server renders for a URL, and the markup of the   *)
(* page, is identified by the product and the option values it shows;      *)
(* payload tells whether querySelector('variant-picker                     *)
(* script[type="application/json"]') finds the JSON of the variant in it.  *)
(* The product template renders the picker with its payload, so the page   *)
(* and every 2xx response with a <main> carry it; a body without it is an  *)
(* error page, which only the user-triggered fetch reads (it does not      *)
(* look at response.ok).                                                   *)
(***************************************************************************)
Markup(productUrl, ids) == [productUrl |-> productUrl, ids |-> ids, payload |-> TRUE]

\* The document the server renders for a request URL.
Render(url) == Markup(StripQuery(url.productUrl), url.ids)

\* The body of an error page.
ErrorPage == [Markup(undefined, <<>>) EXCEPT !.payload = FALSE]

(***************************************************************************)
(* #htmlCache: a Map, kept as the sequence of its entries in insertion     *)
(* order.                                                                  *)
(***************************************************************************)
CacheKeys(cache) == {cache[i].key : i \in 1..Len(cache)}

\* Map.prototype.has
CacheHas(cache, key) == key \in CacheKeys(cache)

\* Map.prototype.get, for a key the Map has.
CacheGet(cache, key) ==
    (CHOOSE e \in {cache[i] : i \in 1..Len(cache)} : e.key = key).html

\* Map.prototype.set: an existing key keeps its place, a new key goes last.
CacheSet(cache, key, html) ==
    IF CacheHas(cache, key)
    THEN [i \in 1..Len(cache) |->
            IF cache[i].key = key THEN [key |-> key, html |-> html] ELSE cache[i]]
    ELSE Append(cache, [key |-> key, html |-> html])

\* Mutant: the size check is left out.
CacheStore_NoEvict(cache, key, html) == CacheSet(cache, key, html)

\* Mutant: the newest entry is deleted instead of the oldest.
CacheStore_EvictNewest(cache, key, html) ==
    CacheSet(IF Len(cache) >= MAX_CACHE_SIZE
             THEN SubSeq(cache, 1, Len(cache) - 1)
             ELSE cache, key, html)

\* if (size >= MAX_CACHE_SIZE) delete(keys().next().value); then set(url, html):
\* the same five lines end #cacheCurrentPage and #prefetchSingleVariant.
CacheStore(cache, key, html) ==
    CacheSet(IF Len(cache) >= MAX_CACHE_SIZE THEN Tail(cache) ELSE cache, key, html)

(***************************************************************************)
(* The state of one picker instance and of its page.                       *)
(***************************************************************************)
VARIABLES
    connected,          \* the element is attached to the document
    changeListeners,    \* 'change' listeners added to the element so far
    onProductPage,      \* Theme.template.name === 'product' and the picker is
                        \* in no product-card and no quick-add-dialog
    inCard,             \* closest('quick-add-component') or
                        \* closest('swatches-variant-picker-component')
    productUrl,         \* this.dataset.productUrl
    hiddenLabels,       \* the inputs whose label the server rendered hidden
    checked,            \* the checked input of each fieldset, in document order
    markup,             \* the markup the page shows (last rendered or morphed)
    location,           \* window.location: the variant parameter and the path
    htmlCache,          \* #htmlCache
    pendingRequestUrl,  \* #pendingRequestUrl
    fetches,            \* the user-triggered fetches that have not settled
    prefetches,         \* the prefetch fetches that have not settled (a bag of URLs)
    idleCallbacks,      \* requestIdleCallback/setTimeout callbacks not yet run
    event,              \* the change event being dispatched: its target and the
                        \* number of listeners still to be called
    selections,         \* change events delivered so far
    attaches,           \* connectedCallback calls so far
    task,               \* the task of the event loop that ran last
    log,                \* what that task did, in order
    hovered,            \* the control the pointer is on (0: none)
    preloaderConnected, \* the variant-image-preloader element is attached
    preloaderAttaches,  \* connectedCallback calls of the preloader so far
    hoverListeners,     \* mouseenter/mouseleave listener pairs the preloader
                        \* added to the picker so far
    productData,        \* #productData was read from the page
    hoverDebounceTimer, \* #hoverDebounceTimer: the color its callback preloads
    hoverTimers,        \* the timers of #debouncedPreload that are pending (a
                        \* bag of the colors their callbacks preload)
    preloadQueue,       \* #preloadQueue
    preloadedImages,    \* the color keys whose images #preloadedImages holds
    imageLoads,         \* the image sets being loaded (a bag of color keys)
    selectedEvent,      \* the VariantSelectedEvent the last task dispatched:
                        \* the id it carries, and whether the input of that
                        \* id was checked when it was dispatched
    galleryConnected,   \* a media-gallery instance of the picker's section is
                        \* attached to the document
    galleryAborted,     \* the signal of its #controller is aborted
    galleryListening    \* its #handleVariantUpdate is a listener of the section

vars == <<connected, changeListeners, onProductPage, inCard, productUrl,
          hiddenLabels, checked,
          markup, location, htmlCache, pendingRequestUrl, fetches, prefetches,
          idleCallbacks, event, selections, attaches, task, log,
          hovered, preloaderConnected, preloaderAttaches, hoverListeners,
          productData, hoverDebounceTimer, hoverTimers, preloadQueue,
          preloadedImages,
          imageLoads, selectedEvent,
          galleryConnected, galleryAborted, galleryListening>>

\* No VariantSelectedEvent was dispatched.
NoSelected == [id |-> 0, checked |-> FALSE]

\* The instance state the handlers work on.
Cur ==
    [connected |-> connected, changeListeners |-> changeListeners,
     onProductPage |-> onProductPage, inCard |-> inCard, productUrl |-> productUrl,
     hiddenLabels |-> hiddenLabels, checked |-> checked, markup |-> markup,
     location |-> location,
     htmlCache |-> htmlCache, pendingRequestUrl |-> pendingRequestUrl,
     fetches |-> fetches, prefetches |-> prefetches,
     idleCallbacks |-> idleCallbacks, log |-> <<>>,
     preloaderConnected |-> preloaderConnected, hoverListeners |-> hoverListeners,
     productData |-> productData, hoverDebounceTimer |-> hoverDebounceTimer,
     hoverTimers |-> hoverTimers,
     preloadQueue |-> preloadQueue, preloadedImages |-> preloadedImages,
     imageLoads |-> imageLoads, selectedEvent |-> NoSelected,
     galleryConnected |-> galleryConnected, galleryAborted |-> galleryAborted,
     galleryListening |-> galleryListening]

\* The state after a task is the state its handler returns.
Commit(s) ==
    /\ connected' = s.connected
    /\ changeListeners' = s.changeListeners
    /\ onProductPage' = s.onProductPage
    /\ inCard' = s.inCard
    /\ productUrl' = s.productUrl
    /\ hiddenLabels' = s.hiddenLabels
    /\ checked' = s.checked
    /\ markup' = s.markup
    /\ location' = s.location
    /\ htmlCache' = s.htmlCache
    /\ pendingRequestUrl' = s.pendingRequestUrl
    /\ fetches' = s.fetches
    /\ prefetches' = s.prefetches
    /\ idleCallbacks' = s.idleCallbacks
    /\ log' = s.log
    /\ preloaderConnected' = s.preloaderConnected
    /\ hoverListeners' = s.hoverListeners
    /\ productData' = s.productData
    /\ hoverDebounceTimer' = s.hoverDebounceTimer
    /\ hoverTimers' = s.hoverTimers
    /\ preloadQueue' = s.preloadQueue
    /\ preloadedImages' = s.preloadedImages
    /\ imageLoads' = s.imageLoads
    /\ selectedEvent' = s.selectedEvent
    /\ galleryConnected' = s.galleryConnected
    /\ galleryAborted' = s.galleryAborted
    /\ galleryListening' = s.galleryListening

\* An observable effect of a handler, appended to the log of the task.
Effect(s, e) == [s EXCEPT !.log = Append(@, e)]

\* Mutant: no label counts as hidden.
isHidden_Never(s, option) == FALSE

\* label.classList.contains('variant-option__button-label--hidden') ||
\* label.style.display === 'none'
isHidden(s, option) == option \in s.hiddenLabels

(***************************************************************************)
(* Snapshot and prefetch.                                                  *)
(***************************************************************************)
\* #cacheCurrentPage()
cacheCurrentPage(s) ==
    LET optionValueIds == s.checked
        url == Url(s.productUrl, FALSE, optionValueIds)
        currentHtml == s.markup
    IN  IF Len(optionValueIds) = 0
        THEN s
        ELSE Effect([s EXCEPT !.htmlCache = CacheStore(@, url, currentHtml)],
                    "cacheSet")

\* #prefetchSingleVariant(option), up to its first await: fetch(url)
prefetchSingleVariant(s, option) ==
    LET url == buildHoverUrl(s, option) IN
    IF CacheHas(s.htmlCache, url)
    THEN s
    ELSE Effect([s EXCEPT !.prefetches = @ (+) SetToBag({url})], "prefetch")

\* The outcomes of a prefetch fetch: a 2xx response with a <main>, or a
\* rejected fetch, a response that is not ok, an empty body, a body without <main>.
PrefetchResponses == {"ok", "networkError", "notOk", "empty", "noMain"}

\* Mutant: the response of a prefetch is also morphed into the picker.
prefetchSingleVariantSettled_Applies(s, url, response) ==
    LET s1 == [s EXCEPT !.prefetches = @ (-) SetToBag({url})] IN
    IF response = "ok"
    THEN Effect([s1 EXCEPT !.htmlCache = CacheStore(@, url, Render(url)),
                           !.checked = url.ids,
                           !.markup = Render(url)],
                "cacheSet")
    ELSE s1

\* Mutant: response.ok is not looked at.
prefetchSingleVariantSettled_NoOkCheck(s, url, response) ==
    LET s1 == [s EXCEPT !.prefetches = @ (-) SetToBag({url})] IN
    IF response \in {"ok", "notOk"}
    THEN Effect([s1 EXCEPT !.htmlCache = CacheStore(@, url, Render(url))],
                "cacheSet")
    ELSE s1

\* #prefetchSingleVariant(option), from the settling of fetch(url) on.
prefetchSingleVariantSettled(s, url, response) ==
    LET s1 == [s EXCEPT !.prefetches = @ (-) SetToBag({url})] IN
    IF response = "ok"
    THEN Effect([s1 EXCEPT !.htmlCache = CacheStore(@, url, Render(url))],
                "cacheSet")
    ELSE s1

\* querySelectorAll('input[type="radio"][data-option-value-id]'), in document order.
allInputs == <<1, 2, 3, 4, 11, 12>>

\* The forEach of #prefetchAvailableColorVariants, from input i on;
\* currentlySelected is the display name of the checked color met so far.
RECURSIVE prefetchEach(_, _, _)
prefetchEach(s, i, currentlySelected) ==
    IF i > Len(allInputs)
    THEN s
    ELSE LET option == allInputs[i]
             isColor == isColorOption(option)
             isChecked == s.checked[closestFieldset(option)] = option
             selectedNow == IF isChecked /\ isColor
                            THEN optionValue(option)
                            ELSE currentlySelected
             isSameColorAsSelected ==
                 selectedNow # undefined /\ optionValue(option) = selectedNow
             skip == \/ isChecked
                     \/ ~isColor
                     \/ isHidden(s, option)
                     \/ isSameColorAsSelected
                     \/ CacheHas(s.htmlCache, buildHoverUrl(s, option))
         IN  prefetchEach(IF skip THEN s ELSE prefetchSingleVariant(s, option),
                          i + 1, selectedNow)

\* #prefetchAvailableColorVariants()
prefetchAvailableColorVariants(s) == prefetchEach(s, 1, undefined)

\* The callback given to requestIdleCallback (or setTimeout) by
\* connectedCallback and by #prefetchAfterSizeChange.
idleCallback(s) == prefetchAvailableColorVariants(cacheCurrentPage(s))

\* Mutant: no callback is scheduled.
prefetchAfterSizeChange_None(s) == s

\* #prefetchAfterSizeChange()
prefetchAfterSizeChange(s) ==
    Effect([s EXCEPT !.idleCallbacks = @ + 1], "requestIdleCallback")

(***************************************************************************)
(* The media gallery of the picker's section (media-gallery.js).  Its      *)
(* #controller is created once, with the instance.                         *)
(***************************************************************************)
\* MediaGallery.connectedCallback(): addEventListener with { signal } adds
\* nothing when the signal is already aborted.
galleryConnectedCallback(s) ==
    [s EXCEPT !.galleryConnected = TRUE,
              !.galleryListening = ~s.galleryAborted]

\* MediaGallery.disconnectedCallback(): the abort removes the listeners.
galleryDisconnectedCallback(s) ==
    [s EXCEPT !.galleryConnected = FALSE,
              !.galleryAborted = TRUE,
              !.galleryListening = FALSE]

\* #handleVariantUpdate(event): the markup of the event has a media-gallery,
\* which replaces this one; an element with no parent is not replaced.
handleVariantUpdate(s) ==
    LET s1 == Effect(s, "handleVariantUpdate")
    IN  IF s1.galleryConnected THEN galleryDisconnectedCallback(s1) ELSE s1

\* this.dispatchEvent(new VariantUpdateEvent(...)): the event bubbles to the
\* section, whose listeners run now.
dispatchVariantUpdate(s) ==
    LET s1 == Effect(s, "VariantUpdateEvent")
    IN  IF s1.galleryListening THEN handleVariantUpdate(s1) ELSE s1

(***************************************************************************)
(* Applying markup.                                                        *)
(***************************************************************************)
\* updateVariantPicker(newHtml): the data attributes and the controls of the
\* picker become those of the new markup's picker.
updateVariantPicker(s, newHtml) ==
    Effect([s EXCEPT !.productUrl = newHtml.productUrl,
                     !.checked = newHtml.ids,
                     !.markup = newHtml],
           "morphPicker")

\* updateMain(newHtml): <main>, which holds the picker, becomes the new <main>.
updateMain(s, newHtml) ==
    Effect([s EXCEPT !.productUrl = newHtml.productUrl,
                     !.checked = newHtml.ids,
                     !.markup = newHtml],
           "morphMain")

\* Mutant: the event is dispatched before the picker is replaced, and in
\* full-page mode too.
applyHtml_NotifiesFirst(s, html, shouldMorphMain, isColorChange) ==
    LET s0 == Effect(s, "VariantUpdateEvent")
        s1 == IF shouldMorphMain
              THEN updateMain(s0, html)
              ELSE updateVariantPicker(s0, html)
    IN  IF ~isColorChange THEN prefetchAfterSizeChange(s1) ELSE s1

\* The part #updateWithCachedHtml and the then-callback of fetchUpdatedSection
\* share, word for word: apply in one of the two modes (in partial mode
\* selectedOptionId is the id of a checked input, so the event is dispatched),
\* then schedule the prefetch pass.
applyHtml(s, html, shouldMorphMain, isColorChange) ==
    LET s1 == IF shouldMorphMain
              THEN updateMain(s, html)
              ELSE dispatchVariantUpdate(updateVariantPicker(s, html))
    IN  IF ~isColorChange THEN prefetchAfterSizeChange(s1) ELSE s1

\* #updateWithCachedHtml(cachedHtml, shouldMorphMain, isColorChange)
updateWithCachedHtml(s, cachedHtml, shouldMorphMain, isColorChange) ==
    IF ~cachedHtml.payload
    THEN s
    ELSE applyHtml(s, cachedHtml, shouldMorphMain, isColorChange)

(***************************************************************************)
(* The user-triggered fetch.                                               *)
(***************************************************************************)
\* Mutant: the previous controller is not aborted.
abortPrevious_Keep(s) == s

\* this.#abortController?.abort(): when the fetch of the current controller has
\* not settled, its promise rejects with AbortError in the same task and the
\* catch-callback, which does nothing, runs; the response is dropped.
abortPrevious(s) ==
    IF \E f \in s.fetches : f.current
    THEN Effect([s EXCEPT !.fetches = {f \in @ : ~f.current}], "abort")
    ELSE s

\* fetchUpdatedSection(requestUrl, shouldMorphMain, isColorChange), up to the
\* call of fetch with the signal of a new controller.
fetchUpdatedSection(s, requestUrl, shouldMorphMain, isColorChange) ==
    LET s1 == abortPrevious(s)
        previous == {[f EXCEPT !.current = FALSE] : f \in s1.fetches}
        request == [url |-> requestUrl, shouldMorphMain |-> shouldMorphMain,
                    isColorChange |-> isColorChange, current |-> TRUE,
                    superseded |-> FALSE]
    IN  Effect([s1 EXCEPT !.fetches = previous \cup {request}], "fetch")

\* The outcomes of a user-triggered fetch: a 2xx response with the picker and
\* its JSON payload ("ok"), a response of another status whose body carries
\* them ("notOk"), a body without them (an empty or malformed body, an error
\* page), or a rejected fetch.  The then-callbacks read response.text() and
\* never response.ok or response.status.
FetchResponses == {"ok", "notOk", "noPayload", "networkError"}

\* Mutant: a fetch whose response is not applied stays outstanding.
fetchUpdatedSectionSettled_Pending(s, f, response) ==
    IF response \in {"ok", "notOk"}
    THEN applyHtml([s EXCEPT !.fetches = @ \ {f}, !.pendingRequestUrl = undefined],
                   Render(f.url), f.shouldMorphMain, f.isColorChange)
    ELSE s

\* The then-callback and the catch-callback of fetchUpdatedSection for the
\* fetch f, which settles with response.
fetchUpdatedSectionSettled(s, f, response) ==
    LET s1 == [s EXCEPT !.fetches = @ \ {f}]
        s2 == [s1 EXCEPT !.pendingRequestUrl = undefined]
        html == IF response \in {"ok", "notOk"} THEN Render(f.url) ELSE ErrorPage
    IN  IF response = "networkError"
        THEN s1
        ELSE IF ~html.payload
             THEN s2
             ELSE applyHtml(s2, html, f.shouldMorphMain, f.isColorChange)

(***************************************************************************)
(* The change handler.                                                     *)
(***************************************************************************)
\* updateSelectedOption(target): target.checked = true
updateSelectedOption(s, target) ==
    [s EXCEPT !.checked[closestFieldset(target)] = target]

\* Mutant: the address is left as it is.
replaceState_Never(s, newLocation) == s

\* history.replaceState when the href changed.
replaceState(s, newLocation) ==
    IF newLocation # s.location
    THEN Effect([s EXCEPT !.location = newLocation], "replaceState")
    ELSE s

\* Mutant: the event is dispatched twice.
dispatchVariantSelected_Twice(s, target) ==
    Effect(Effect([s EXCEPT !.selectedEvent =
                      [id |-> target,
                       checked |-> s.checked[closestFieldset(target)] = target]],
                  "VariantSelectedEvent"),
           "VariantSelectedEvent")

\* this.dispatchEvent(new VariantSelectedEvent({ id: optionValueId })): the
\* listeners of the event run now, with the controls as they are.
dispatchVariantSelected(s, target) ==
    Effect([s EXCEPT !.selectedEvent =
               [id |-> target,
                checked |-> s.checked[closestFieldset(target)] = target]],
           "VariantSelectedEvent")

\* Mutant: every picker counts as one of a product page.
isOnProductPage_Always(s, target) == TRUE

\* isOnProductPage of variantChanged: the template is the product template
\* and the target is in no product-card and no quick-add-dialog.
isOnProductPage(s, target) == s.onProductPage

\* variantChanged(event), event.target being the input that was checked.
variantChanged(s, target) ==
    LET s1 == dispatchVariantSelected(updateSelectedOption(s, target), target)
        onProductPage1 == isOnProductPage(s1, target)
        currentUrl == StripQuery(s1.productUrl)
        newUrl == connectedProductUrl(target)
        loadsNewProduct == onProductPage1 /\ newUrl # undefined /\ newUrl # currentUrl
        requestUrl == buildRequestUrl(s1, target)
        s2 == [s1 EXCEPT !.pendingRequestUrl = requestProductUrl(s1, target)]
        isColorChange == isColorOptionChange(target)
    IN  IF CacheHas(s2.htmlCache, requestUrl) /\ onProductPage1 /\ isColorChange
        THEN LET cachedHtml == CacheGet(s2.htmlCache, requestUrl)
                 s3 == updateWithCachedHtml(s2, cachedHtml, loadsNewProduct, isColorChange)
             IN  replaceState(s3, [s3.location EXCEPT !.variant = variantId(target)])
        ELSE LET s3 == fetchUpdatedSection(s2, requestUrl, loadsNewProduct, isColorChange)
                 url1 == IF onProductPage1
                         THEN [s3.location EXCEPT !.variant = variantId(target)]
                         ELSE s3.location
                 url2 == IF loadsNewProduct
                         THEN [url1 EXCEPT !.pathname = newUrl]
                         ELSE url1
             IN  replaceState(s3, url2)

(***************************************************************************)
(* Attach and detach.                                                      *)
(***************************************************************************)
\* connectedCallback()
connectedCallback(s) ==
    [s EXCEPT !.connected = TRUE,
              !.changeListeners = @ + 1,
              !.idleCallbacks = @ + 1]

\* Mutant: the cache is not cleared.
disconnectedCallback_KeepCache(s) == [s EXCEPT !.connected = FALSE]

\* disconnectedCallback(): the hover listeners are removed and the cache is
\* cleared; the 'change' listener, the idle callbacks and the fetches stay.
disconnectedCallback(s) ==
    [s EXCEPT !.connected = FALSE, !.htmlCache = <<>>]

(***************************************************************************)
(* Hovering.  The picker's own hover handlers only set the text of the     *)
(* swatch-value element, which is not part of the state; they are on the   *)
(* element from connectedCallback to disconnectedCallback.                 *)
(***************************************************************************)
\* handleVariantHover(event)
handleVariantHover(s, target) == Effect(s, "swatchValue")

\* handleVariantLeave(event)
handleVariantLeave(s, target) == Effect(s, "swatchValue")

(***************************************************************************)
(* VariantImagePreloader of src/assets/product-card.js.  Every color has   *)
(* one set of images in the product data, named by its color key.          *)
(***************************************************************************)
\* colorValue.toUpperCase().replace(/\s+/g, '')
colorKey(colorValue) ==
    CASE colorValue = "Red" -> "RED"
      [] colorValue = "Blue" -> "BLUE"
      [] colorValue = "Green" -> "GREEN"
      [] OTHER -> colorValue

\* #findColorInput(target): the input of the control when its fieldset is a
\* color fieldset (the preloader's own #isColorOption), else null (0).
findColorInput(target) ==
    IF toLowerCase(legendText(closestFieldset(target))) \in ColorLegends
    THEN target
    ELSE 0

\* #clearDebounce()
clearDebounce(s) ==
    IF s.hoverDebounceTimer # undefined
    THEN Effect([s EXCEPT !.hoverTimers = @ (-) SetToBag({s.hoverDebounceTimer}),
                          !.hoverDebounceTimer = undefined],
                "clearTimeout")
    ELSE s

\* #debouncedPreload(colorValue): the timer of 150 ms replaces the one before.
debouncedPreload(s, colorValue) ==
    [clearDebounce(s) EXCEPT !.hoverDebounceTimer = colorValue,
                             !.hoverTimers = @ (+) SetToBag({colorValue})]

\* #preloadImagesForColor(colorValue), up to its await: with nothing to
\* preload the key is added to the queue and removed from it at once.
preloadImagesForColor(s, colorValue) ==
    IF ~s.productData \/ colorKey(colorValue) \in s.preloadQueue
                      \/ colorKey(colorValue) \in s.preloadedImages
    THEN s
    ELSE Effect([s EXCEPT !.preloadQueue = @ \cup {colorKey(colorValue)},
                          !.imageLoads = @ (+) SetToBag({colorKey(colorValue)})],
                "preloadImages")

\* The outcomes of loading the images of a color: onload, onerror, the timeout.
ImageOutcomes == {"load", "error", "timeout"}

\* Mutant: the key is removed from the queue only when the images loaded.
preloadImagesSettled_KeepFailed(s, key, outcome) ==
    [s EXCEPT !.imageLoads = @ (-) SetToBag({key}),
              !.preloadedImages = IF outcome = "load" THEN @ \cup {key} ELSE @,
              !.preloadQueue = IF outcome = "load" THEN @ \ {key} ELSE @]

\* #preloadImagesForColor(colorValue), from the settling of #preloadImageSet on.
preloadImagesSettled(s, key, outcome) ==
    [s EXCEPT !.imageLoads = @ (-) SetToBag({key}),
              !.preloadedImages = IF outcome = "load" THEN @ \cup {key} ELSE @,
              !.preloadQueue = @ \ {key}]

\* #preloadCurrentVariant(): the first checked radio of the picker in the document.
preloadCurrentVariant(s) ==
    IF s.connected /\ findColorInput(s.checked[1]) # 0
    THEN preloadImagesForColor(s, optionValue(s.checked[1]))
    ELSE s

\* #setupHoverPreload(): the two listeners are added to the picker in the
\* document; nothing removes them.
setupHoverPreload(s) ==
    IF s.connected THEN [s EXCEPT !.hoverListeners = @ + 1] ELSE s

\* The mouseenter listener of #setupHoverPreload.
hoverPreloadEnter(s, target) ==
    LET input == findColorInput(target) IN
    IF input # 0 /\ s.checked[closestFieldset(input)] # input
    THEN debouncedPreload(s, optionValue(input))
    ELSE s

\* Mutant: leaving a control keeps the timer.
hoverPreloadLeave_Keep(s, target) == s

\* The mouseleave listener of #setupHoverPreload.
hoverPreloadLeave(s, target) == clearDebounce(s)

\* The mouseenter listeners the preloader added, called one after the other.
RECURSIVE callEnterListeners(_, _, _)
callEnterListeners(s, target, n) ==
    IF n = 0 THEN s
    ELSE callEnterListeners(hoverPreloadEnter(s, target), target, n - 1)

\* The mouseleave listeners the preloader added, called one after the other.
RECURSIVE callLeaveListeners(_, _, _)
callLeaveListeners(s, target, n) ==
    IF n = 0 THEN s
    ELSE callLeaveListeners(hoverPreloadLeave(s, target), target, n - 1)

\* The callback of the timer of #debouncedPreload.
hoverDebounceCallback(s, colorValue) ==
    [preloadImagesForColor(s, colorValue)
        EXCEPT !.hoverTimers = @ (-) SetToBag({colorValue}),
               !.hoverDebounceTimer = undefined]

\* VariantImagePreloader.connectedCallback()
preloaderConnectedCallback(s) ==
    preloadCurrentVariant(setupHoverPreload(
        [s EXCEPT !.preloaderConnected = TRUE, !.productData = TRUE]))

\* VariantImagePreloader.disconnectedCallback()
preloaderDisconnectedCallback(s) ==
    [clearDebounce(s) EXCEPT !.preloaderConnected = FALSE, !.preloadQueue = {}]

(***************************************************************************)
(* The specification.                                                      *)
(***************************************************************************)
\* The pages a picker is constructed on: the product page, a product card
\* or quick-add (product.url with or without a query), a section of another
\* template.
Contexts ==
    {[onProductPage |-> TRUE, inCard |-> FALSE, productUrl |-> UrlA, pathname |-> UrlA],
     [onProductPage |-> FALSE, inCard |-> TRUE, productUrl |-> UrlA, pathname |-> "/search"],
     [onProductPage |-> FALSE, inCard |-> TRUE, productUrl |-> UrlAq, pathname |-> "/search"],
     [onProductPage |-> FALSE, inCard |-> FALSE, productUrl |-> UrlA, pathname |-> "/"]}

\* The visible colors are 1 and 2.
HiddenLabels == {3, 4}

NoUrl == Url(undefined, FALSE, <<>>)
NoTask == [op |-> "none", option |-> 0, response |-> "none", url |-> NoUrl,
           isColorChange |-> FALSE, color |-> undefined]
NoEvent == [target |-> 0, listeners |-> 0]

\* The preloader before it is attached.
\* No media gallery is on the page.
InitNoGallery ==
    /\ galleryConnected = FALSE
    /\ galleryAborted = FALSE
    /\ galleryListening = FALSE

InitPreloader ==
    /\ hovered = 0
    /\ preloaderConnected = FALSE
    /\ preloaderAttaches = 0
    /\ hoverListeners = 0
    /\ productData = FALSE
    /\ hoverDebounceTimer = undefined
    /\ hoverTimers = EmptyBag
    /\ preloadQueue = {}
    /\ preloadedImages = {}
    /\ imageLoads = EmptyBag

InitIn(context, hidden) ==
    /\ InitPreloader
    /\ InitNoGallery
    /\ connected = FALSE
    /\ changeListeners = 0
    /\ onProductPage = context.onProductPage
    /\ inCard = context.inCard
    /\ productUrl = context.productUrl
    /\ hiddenLabels = hidden
    /\ checked = <<1, 11>>
    /\ markup = Markup(StripQuery(context.productUrl), <<1, 11>>)
    /\ location = [variant |-> undefined, pathname |-> context.pathname]
    /\ htmlCache = <<>>
    /\ pendingRequestUrl = undefined
    /\ fetches = {}
    /\ prefetches = EmptyBag
    /\ idleCallbacks = 0
    /\ event = NoEvent
    /\ selections = 0
    /\ attaches = 0
    /\ task = NoTask
    /\ log = <<>>
    /\ selectedEvent = NoSelected

Init == \E context \in Contexts : InitIn(context, HiddenLabels)

\* The element is attached to the document.
Attach ==
    /\ event = NoEvent
    /\ ~connected
    /\ attaches < MaxAttach
    /\ Commit(connectedCallback(Cur))
    /\ attaches' = attaches + 1
    /\ task' = [NoTask EXCEPT !.op = "attach"]
    /\ UNCHANGED <<event, selections, hovered, preloaderAttaches>>

\* The element is detached from the document.
Detach ==
    /\ event = NoEvent
    /\ connected
    /\ Commit(disconnectedCallback(Cur))
    /\ task' = [NoTask EXCEPT !.op = "detach"]
    /\ UNCHANGED <<event, selections, attaches, hovered, preloaderAttaches>>

\* One listener of the element's 'change' listeners, each a bound
\* variantChanged, is called with the event.
CallListener(s, target, remaining) ==
    /\ Commit(variantChanged(s, target))
    /\ event' = IF remaining = 0 THEN NoEvent
                ELSE [target |-> target, listeners |-> remaining]
    /\ task' = [NoTask EXCEPT !.op = "change", !.option = target,
                              !.isColorChange = isColorOptionChange(target)]
    /\ UNCHANGED <<hovered, preloaderAttaches>>

\* The user checks a visible input that was not checked: a change event is
\* dispatched to the listeners of the element, one after the other.  Fetches
\* that have not settled are from now on fetches of an earlier event.
Change ==
    IF event # NoEvent
    THEN /\ CallListener(Cur, event.target, event.listeners - 1)
         /\ UNCHANGED <<selections, attaches>>
    ELSE /\ connected
         /\ selections < MaxSelections
         /\ \E target \in OptionValues :
               /\ ~isHidden(Cur, target)
               /\ checked[closestFieldset(target)] # target
               /\ CallListener([Cur EXCEPT !.fetches =
                                   {[f EXCEPT !.superseded = TRUE] : f \in @}],
                               target, changeListeners - 1)
         /\ selections' = selections + 1
         /\ UNCHANGED attaches

\* An idle callback (or its setTimeout fallback) runs.
Idle ==
    /\ event = NoEvent
    /\ idleCallbacks > 0
    /\ Commit(idleCallback([Cur EXCEPT !.idleCallbacks = @ - 1]))
    /\ task' = [NoTask EXCEPT !.op = "idle"]
    /\ UNCHANGED <<event, selections, attaches, hovered, preloaderAttaches>>

\* A user-triggered fetch that was not aborted settles.
FetchSettles ==
    /\ event = NoEvent
    /\ \E f \in fetches : \E response \in FetchResponses :
          /\ Commit(fetchUpdatedSectionSettled(Cur, f, response))
          /\ task' = [op |-> IF f.superseded THEN "staleResponse" ELSE "response",
                      option |-> 0, response |-> response, url |-> f.url,
                      isColorChange |-> f.isColorChange, color |-> undefined]
    /\ UNCHANGED <<event, selections, attaches, hovered, preloaderAttaches>>

\* A prefetch fetch settles.
PrefetchSettles ==
    /\ event = NoEvent
    /\ \E url \in BagToSet(prefetches) : \E response \in PrefetchResponses :
          /\ Commit(prefetchSingleVariantSettled(Cur, url, response))
          /\ task' = [NoTask EXCEPT !.op = "prefetched", !.url = url,
                                    !.response = IF response = "ok" THEN "ok"
                                                 ELSE "failed"]
    /\ UNCHANGED <<event, selections, attaches, hovered, preloaderAttaches>>

Next ==
    \/ Attach
    \/ Detach
    \/ Change
    \/ Idle
    \/ FetchSettles
    \/ PrefetchSettles

Spec == Init /\ [][Next]_vars

\* The same, where the transport settles every fetch and a change event that
\* is being dispatched reaches its remaining listeners: the promise of fetch
\* settles with a response, an error or the abort, and dispatchEvent calls
\* the listeners synchronously, one after the other.
SpecLive ==
    /\ Init
    /\ [][Next]_vars
    /\ WF_vars(FetchSettles)
    /\ WF_vars(event # NoEvent /\ Change)

(***************************************************************************)
(* A picker whose cache is nearly full.  The first entries are the ones    *)
(* stored while the picker showed other option values (ids above 100);     *)
(* the picker is attached and its attach-time idle callback has run.       *)
(***************************************************************************)
FillerKey(n) == Url(UrlA, FALSE, <<1, 100 + n>>)

FilledCache(n) == [i \in 1..n |-> [key |-> FillerKey(i), html |-> Render(FillerKey(i))]]

InitFull ==
    \E free \in 0..MaxFree :
        /\ InitPreloader
        /\ InitNoGallery
        /\ connected = TRUE
        /\ changeListeners = 1
        /\ onProductPage = TRUE
        /\ inCard = FALSE
        /\ productUrl = UrlA
        /\ hiddenLabels = HiddenLabels
        /\ checked = <<1, 11>>
        /\ markup = Markup(UrlA, <<1, 11>>)
        /\ location = [variant |-> undefined, pathname |-> UrlA]
        /\ htmlCache = FilledCache(MAX_CACHE_SIZE - free)
        /\ pendingRequestUrl = undefined
        /\ fetches = {}
        /\ prefetches = EmptyBag
        /\ idleCallbacks = 0
        /\ event = NoEvent
        /\ selections = 0
        /\ attaches = 1
        /\ task = NoTask
        /\ log = <<>>
        /\ selectedEvent = NoSelected

NextFull ==
    \/ Change
    \/ Idle
    \/ FetchSettles
    \/ PrefetchSettles

SpecFull == InitFull /\ [][NextFull]_vars

(***************************************************************************)
(* A product page that shows the second "Red" (value 3), which stands      *)
(* after the first "Red" (value 1) in the document; the colors 2 and 4     *)
(* are hidden.                                                             *)
(***************************************************************************)
InitSameName ==
    /\ InitPreloader
    /\ InitNoGallery
    /\ connected = FALSE
    /\ changeListeners = 0
    /\ onProductPage = TRUE
    /\ inCard = FALSE
    /\ productUrl = UrlA
    /\ hiddenLabels = {2, 4}
    /\ checked = <<3, 11>>
    /\ markup = Markup(UrlA, <<3, 11>>)
    /\ location = [variant |-> variantId(3), pathname |-> UrlA]
    /\ htmlCache = <<>>
    /\ pendingRequestUrl = undefined
    /\ fetches = {}
    /\ prefetches = EmptyBag
    /\ idleCallbacks = 0
    /\ event = NoEvent
    /\ selections = 0
    /\ attaches = 0
    /\ task = NoTask
    /\ log = <<>>
    /\ selectedEvent = NoSelected

SpecSameName == InitSameName /\ [][Next]_vars

(***************************************************************************)
(* A picker that was attached, detached and attached again, in each of the *)
(* contexts: connectedCallback has added a bound 'change' listener and     *)
(* scheduled a pass each time, and disconnectedCallback has removed only   *)
(* the hover listeners and cleared the cache.                              *)
(***************************************************************************)
InitReattached ==
    \E context \in Contexts :
        /\ InitPreloader
        /\ InitNoGallery
        /\ connected = TRUE
        /\ changeListeners = 2
        /\ onProductPage = context.onProductPage
        /\ inCard = context.inCard
        /\ productUrl = context.productUrl
        /\ hiddenLabels = HiddenLabels
        /\ checked = <<1, 11>>
        /\ markup = Markup(StripQuery(context.productUrl), <<1, 11>>)
        /\ location = [variant |-> undefined, pathname |-> context.pathname]
        /\ htmlCache = <<>>
        /\ pendingRequestUrl = undefined
        /\ fetches = {}
        /\ prefetches = EmptyBag
        /\ idleCallbacks = 2
        /\ event = NoEvent
        /\ selections = 0
        /\ attaches = MaxAttach
        /\ task = NoTask
        /\ log = <<>>
        /\ selectedEvent = NoSelected

SpecReattached == InitReattached /\ [][NextFull]_vars

(***************************************************************************)
(* A product page whose section holds the picker and a media gallery.  The *)
(* gallery instance is attached when its element is inserted and detached  *)
(* when it is removed or replaced; it can be inserted again.               *)
(***************************************************************************)
InitGallery ==
    /\ InitPreloader
    /\ galleryConnected = FALSE
    /\ galleryAborted = FALSE
    /\ galleryListening = FALSE
    /\ connected = TRUE
    /\ changeListeners = 1
    /\ onProductPage = TRUE
    /\ inCard = FALSE
    /\ productUrl = UrlA
    /\ hiddenLabels = HiddenLabels
    /\ checked = <<1, 11>>
    /\ markup = Markup(UrlA, <<1, 11>>)
    /\ location = [variant |-> undefined, pathname |-> UrlA]
    /\ htmlCache = <<>>
    /\ pendingRequestUrl = undefined
    /\ fetches = {}
    /\ prefetches = EmptyBag
    /\ idleCallbacks = 1
    /\ event = NoEvent
    /\ selections = 0
    /\ attaches = 1
    /\ task = NoTask
    /\ log = <<>>
    /\ selectedEvent = NoSelected

\* The gallery element is attached to the document.
GalleryAttach ==
    /\ event = NoEvent
    /\ ~galleryConnected
    /\ Commit(galleryConnectedCallback(Cur))
    /\ task' = [NoTask EXCEPT !.op = "galleryAttach"]
    /\ UNCHANGED <<event, selections, attaches, hovered, preloaderAttaches>>

\* The gallery element is detached from the document.
GalleryDetach ==
    /\ event = NoEvent
    /\ galleryConnected
    /\ Commit(galleryDisconnectedCallback(Cur))
    /\ task' = [NoTask EXCEPT !.op = "galleryDetach"]
    /\ UNCHANGED <<event, selections, attaches, hovered, preloaderAttaches>>

NextGallery ==
    \/ GalleryAttach
    \/ GalleryDetach
    \/ Change
    \/ Idle
    \/ FetchSettles
    \/ PrefetchSettles

SpecGallery == InitGallery /\ [][NextGallery]_vars

(***************************************************************************)
(* The pointer over the controls of a picker on a product page, with the   *)
(* image preloader of the page.  The picker has just been attached; the    *)
(* second "Red" is visible.  The pointer enters and leaves a control (the  *)
(* label with its input) as a whole.                                       *)
(***************************************************************************)
HoverContext ==
    [onProductPage |-> TRUE, inCard |-> FALSE, productUrl |-> UrlA, pathname |-> UrlA]

InitHover ==
    /\ InitPreloader
    /\ InitNoGallery
    /\ connected = TRUE
    /\ changeListeners = 1
    /\ onProductPage = HoverContext.onProductPage
    /\ inCard = HoverContext.inCard
    /\ productUrl = HoverContext.productUrl
    /\ hiddenLabels = {4}
    /\ checked = <<1, 11>>
    /\ markup = Markup(UrlA, <<1, 11>>)
    /\ location = [variant |-> undefined, pathname |-> HoverContext.pathname]
    /\ htmlCache = <<>>
    /\ pendingRequestUrl = undefined
    /\ fetches = {}
    /\ prefetches = EmptyBag
    /\ idleCallbacks = 1
    /\ event = NoEvent
    /\ selections = 0
    /\ attaches = 1
    /\ task = NoTask
    /\ log = <<>>
    /\ selectedEvent = NoSelected

\* The preloader element is attached to the document.
PreloaderAttach ==
    /\ event = NoEvent
    /\ ~preloaderConnected
    /\ preloaderAttaches < MaxAttach
    /\ Commit(preloaderConnectedCallback(Cur))
    /\ preloaderAttaches' = preloaderAttaches + 1
    /\ task' = [NoTask EXCEPT !.op = "preloaderAttach"]
    /\ UNCHANGED <<event, selections, attaches, hovered>>

\* The preloader element is detached from the document.
PreloaderDetach ==
    /\ event = NoEvent
    /\ preloaderConnected
    /\ Commit(preloaderDisconnectedCallback(Cur))
    /\ task' = [NoTask EXCEPT !.op = "preloaderDetach"]
    /\ UNCHANGED <<event, selections, attaches, hovered, preloaderAttaches>>

\* The pointer enters a visible control, or the input inside the label it is
\* on: the mouseenter listeners on the picker are called, the picker's own
\* and the preloader's.
MouseEnter ==
    /\ event = NoEvent
    /\ connected
    /\ \E target \in OptionValues :
          /\ hovered \in {0, target}
          /\ ~isHidden(Cur, target)
          /\ LET s1 == handleVariantHover(Cur, target)
             IN  Commit(callEnterListeners(s1, target, s1.hoverListeners))
          /\ hovered' = target
          /\ task' = [NoTask EXCEPT !.op = "mouseenter", !.option = target]
    /\ UNCHANGED <<event, selections, attaches, preloaderAttaches>>

\* The pointer leaves the control it is on: the mouseleave listeners are called.
MouseLeave ==
    /\ event = NoEvent
    /\ hovered # 0
    /\ LET s1 == IF connected THEN handleVariantLeave(Cur, hovered) ELSE Cur
       IN  Commit(callLeaveListeners(s1, hovered, s1.hoverListeners))
    /\ hovered' = 0
    /\ task' = [NoTask EXCEPT !.op = "mouseleave", !.option = hovered]
    /\ UNCHANGED <<event, selections, attaches, preloaderAttaches>>

\* The settle delay of a hover has elapsed: the timer's callback runs.
HoverTimer ==
    /\ event = NoEvent
    /\ \E colorValue \in BagToSet(hoverTimers) :
          /\ Commit(hoverDebounceCallback(Cur, colorValue))
          /\ task' = [NoTask EXCEPT !.op = "hoverSettled", !.color = colorValue]
    /\ UNCHANGED <<event, selections, attaches, hovered, preloaderAttaches>>

\* The images of a color have loaded or failed.
PreloadSettlesOf(key) ==
    /\ event = NoEvent
    /\ key \in BagToSet(imageLoads)
    /\ \E outcome \in ImageOutcomes :
          /\ Commit(preloadImagesSettled(Cur, key, outcome))
          /\ task' = [NoTask EXCEPT !.op = "preloadSettled", !.response = outcome]
    /\ UNCHANGED <<event, selections, attaches, hovered, preloaderAttaches>>

\* The color keys of the picker's colors.
ColorKeys == {colorKey(optionValue(option)) : option \in Colors}

PreloadSettles == \E key \in ColorKeys : PreloadSettlesOf(key)

NextHover ==
    \/ PreloaderAttach
    \/ PreloaderDetach
    \/ MouseEnter
    \/ MouseLeave
    \/ HoverTimer
    \/ PreloadSettles
    \/ Idle
    \/ PrefetchSettles

SpecHover == InitHover /\ [][NextHover]_vars

\* The same, where the image set of every color settles: each image fires
\* onload or onerror, or else its 10-second timer rejects its promise, and
\* Promise.allSettled resolves when all of them have.
SpecHoverLive ==
    /\ InitHover
    /\ [][NextHover]_vars
    /\ \A key \in ColorKeys : WF_vars(PreloadSettlesOf(key))

(***************************************************************************)
(* What a task did, read from its log.                                     *)
(***************************************************************************)
Did(l, e) == \E i \in 1..Len(l) : l[i] = e

Times(l, e) == Cardinality({i \in 1..Len(l) : l[i] = e})

\* The task replaced a page region, announced an update or scheduled a pass.
Touched(l) ==
    \/ Did(l, "morphMain")
    \/ Did(l, "morphPicker")
    \/ Did(l, "VariantUpdateEvent")
    \/ Did(l, "requestIdleCallback")

(***************************************************************************)
(* C1.  A response to a fetch that was issued for an earlier change event  *)
(* than the last one handled replaces no page region, emits no             *)
(* variant-updated notification and schedules no prefetch pass, whether    *)
(* the later event was resolved by a fetch or from the cache.              *)
(***************************************************************************)
C1_StaleResponseDiscarded ==
    task.op = "staleResponse" => ~Touched(log)

(***************************************************************************)
(* C2.  At most one user-triggered fetch is outstanding at any time:       *)
(* issuing one aborts the one before.                                      *)
(***************************************************************************)
C2_OneUserFetch ==
    Cardinality(fetches) <= 1

\* A change event whose fetch aborted the fetch of the event before.
C2_Witness ==
    /\ task.op = "change"
    /\ Did(log, "abort")
    /\ Did(log, "fetch")
    /\ Cardinality(fetches) = 1

(***************************************************************************)
(* C3.  On a product page, a change of a color input whose request URL is  *)
(* in the cache is applied within the change event from the cached markup  *)
(* and starts no fetch: no user-triggered fetch and no prefetch.           *)
(***************************************************************************)
\* The requests of the outstanding fetches.
Requests(fs) == {[f EXCEPT !.superseded = FALSE] : f \in fs}

\* The request URL of a change to target in the current state.
RequestUrlOf(target) ==
    buildRequestUrl(updateSelectedOption(Cur, target), target)

\* The step is a change of a color input on a product page with a cached URL.
CachedColorChange ==
    /\ task'.op = "change"
    /\ onProductPage
    /\ isColorOption(task'.option)
    /\ RequestUrlOf(task'.option) \in CacheKeys(htmlCache)

C3_CacheHitNoFetch ==
    [][CachedColorChange =>
          /\ ~Did(log', "fetch")
          /\ ~Did(log', "prefetch")
          /\ Requests(fetches') = Requests(fetches)
          /\ prefetches' = prefetches
          /\ Did(log', "morphMain") \/ Did(log', "morphPicker")
          /\ markup' = CacheGet(htmlCache, RequestUrlOf(task'.option))]_vars

\* A color change was served from the cache.
C3_Witness ==
    /\ task.op = "change"
    /\ task.isColorChange
    /\ onProductPage
    /\ ~Did(log, "fetch")
    /\ Did(log, "morphMain") \/ Did(log, "morphPicker")

(***************************************************************************)
(* C4.  The cache never holds more than MAX_CACHE_SIZE entries, whatever   *)
(* snapshots, prefetch completions and change events happen.               *)
(***************************************************************************)
C4_CacheBounded ==
    Len(htmlCache) <= MAX_CACHE_SIZE

\* A store into the full cache: the oldest entry is gone, the cache is full.
C4_Witness ==
    /\ Did(log, "cacheSet")
    /\ Len(htmlCache) = MAX_CACHE_SIZE
    /\ htmlCache[1].key # FillerKey(1)

Settled == task.op \in {"response", "staleResponse"}

C6_Original ==
    (Settled /\ ~task.isColorChange) => Times(log, "requestIdleCallback") = 1

(***************************************************************************)
(* C6, amended.  A change of a non-color input whose fetch is answered     *)
(* with markup that carries the variant payload schedules exactly one      *)
(* prefetch pass, when the response is applied; a fetch that fails or is   *)
(* answered without the payload schedules none, a change event itself      *)
(* schedules none (so neither a color change served from the cache nor a   *)
(* change that aborts an earlier fetch), and a color change schedules      *)
(* none.                                                                   *)
(***************************************************************************)
\* The body of the response carries the variant payload.
CarriesPayload == task.response \in {"ok", "notOk"}

C6_PassAfterAppliedChange ==
    /\ (Settled /\ ~task.isColorChange /\ CarriesPayload)
          => Times(log, "requestIdleCallback") = 1
    /\ (Settled /\ (task.isColorChange \/ ~CarriesPayload))
          => ~Did(log, "requestIdleCallback")
    /\ task.op = "change" => ~Did(log, "requestIdleCallback")

\* The response to a change of size was applied and a pass scheduled.
C6_Witness ==
    /\ task.op = "response"
    /\ ~task.isColorChange
    /\ task.response = "ok"
    /\ Did(log, "morphPicker")
    /\ Times(log, "requestIdleCallback") = 1

(***************************************************************************)
(* C7.  As claimed: after the response of a user-triggered fetch that was  *)
(* not superseded has been applied, the cache has an entry for its URL.    *)
(***************************************************************************)
C7_FetchedMarkupCached ==
    (task.op = "response" /\ task.response = "ok")
        => task.url \in CacheKeys(htmlCache)

(***************************************************************************)
(* C8.  On a product page every run of the change handler, served from     *)
(* the cache or by a fetch, leaves the variant parameter of the address    *)
(* equal to the data-variant-id of the changed input, and absent when the  *)
(* input has none.                                                         *)
(***************************************************************************)
C8_VariantParameter ==
    (task.op = "change" /\ onProductPage)
        => location.variant = variantId(task.option)

\* A color change served from the cache has set the parameter.
C8_Witness ==
    /\ task.op = "change"
    /\ onProductPage
    /\ ~Did(log, "fetch")
    /\ Did(log, "replaceState")
    /\ location.variant = variantId(task.option)

(***************************************************************************)
(* C9.  As claimed: on a product page, a change to an input whose          *)
(* connected product URL differs from the current product URL is never     *)
(* applied in partial mode and rewrites the path of the address to that    *)
(* URL, from the cache as well as by a fetch.                              *)
(***************************************************************************)
LoadsNewProduct ==
    /\ task'.op = "change"
    /\ onProductPage
    /\ connectedProductUrl(task'.option) # undefined
    /\ connectedProductUrl(task'.option) # StripQuery(productUrl)

C9_NewProductFullPage ==
    [][LoadsNewProduct =>
          /\ ~Did(log', "morphPicker")
          /\ location'.pathname = connectedProductUrl(task'.option)]_vars

(***************************************************************************)
(* C10.  As claimed: no two prefetch fetches of the same URL are           *)
(* outstanding at the same time.                                           *)
(***************************************************************************)
C10_NoDuplicatePrefetch ==
    \A url \in BagToSet(prefetches) : CopiesIn(url, prefetches) <= 1

(***************************************************************************)
(* C11.  Right after the detach handler has returned the cache has no      *)
(* entry, whatever it held before.                                         *)
(***************************************************************************)
C11_DetachClearsCache ==
    task.op = "detach" => CacheKeys(htmlCache) = {}

\* A detach of a picker whose attach-time pass had run and stored the
\* snapshot of the page: the only callback scheduled so far has run.
C11_Witness ==
    /\ task.op = "detach"
    /\ attaches = 1
    /\ selections = 0
    /\ idleCallbacks = 0
    /\ htmlCache = <<>>

(***************************************************************************)
(* C12.  As claimed: a snapshot-and-prefetch pass that was scheduled and   *)
(* had not run when the instance detached never runs afterwards.  In the   *)
(* state a detach leaves, every pending callback is one scheduled before   *)
(* the detach, so the task that follows a detach is never a pass.          *)
(***************************************************************************)
C12_NoPassAfterDetach ==
    [][task.op = "detach" => task'.op # "idle"]_vars

(***************************************************************************)
(* C13.  As claimed: the key buildRequestUrl returns for a change to an    *)
(* input depends only on the chosen value ids, the changed input and the   *)
(* context (data-product-url, card embedding): in every reachable state it *)
(* is the key returned in the state with the same controls and context in  *)
(* which no earlier selection has left a pending request URL.              *)
(***************************************************************************)
\* The key of a change to target from the controls and the context alone.
ContextKey(target) ==
    buildRequestUrl([updateSelectedOption(Cur, target)
                        EXCEPT !.pendingRequestUrl = undefined], target)

C13_KeyDeterministic ==
    \A target \in OptionValues :
        (~isHidden(Cur, target) /\ checked[closestFieldset(target)] # target)
            => RequestUrlOf(target) = ContextKey(target)

(***************************************************************************)
(* C14.  Entering and leaving a control start no fetch, no prefetch and no *)
(* image preload; leaving leaves no settle timer pending; and the settle   *)
(* timer only ever fires while the pointer is still on an unselected       *)
(* control of the timer's color.  So a hover that ends before the delay    *)
(* has elapsed never starts a fetch or a preload for its color.            *)
(***************************************************************************)
C14_LeaveCancelsHover ==
    [][/\ task'.op \in {"mouseenter", "mouseleave"}
            => /\ ~Did(log', "fetch")
               /\ ~Did(log', "prefetch")
               /\ ~Did(log', "preloadImages")
               /\ fetches' = fetches
               /\ prefetches' = prefetches
               /\ imageLoads' = imageLoads
       /\ task'.op = "mouseleave" => hoverDebounceTimer' = undefined
       /\ task'.op = "hoverSettled"
            => /\ hovered # 0
               /\ checked[closestFieldset(hovered)] # hovered
               /\ optionValue(hovered) = task'.color]_vars

\* The pointer has left the control of color 2 and the leave has cleared the
\* settle timer of the hover.
C14_Witness ==
    /\ task.op = "mouseleave"
    /\ task.option = 2
    /\ Did(log, "clearTimeout")
    /\ hoverDebounceTimer = undefined
    /\ hovered = 0

(***************************************************************************)
(* C15.  As claimed: when the settle delay of a hover elapses with the     *)
(* pointer still on the control, and the key of the hovered color is       *)
(* neither in the cache nor being prefetched, a prefetch of that key is    *)
(* started.                                                                *)
(***************************************************************************)
C15_HoverPrefetches ==
    [][(/\ task'.op = "hoverSettled"
        /\ hovered # 0
        /\ ~CacheHas(htmlCache, buildHoverUrl(Cur, hovered))
        /\ ~BagIn(buildHoverUrl(Cur, hovered), prefetches))
          => /\ Did(log', "prefetch")
             /\ BagIn(buildHoverUrl(Cur, hovered), prefetches')]_vars

(***************************************************************************)
(* C16.  No prefetch fetch is ever outstanding for a color whose label is  *)
(* hidden: the passes at attach and after a change of size skip it.        *)
(***************************************************************************)
C16_HiddenNeverPrefetched ==
    \A url \in BagToSet(prefetches) :
        \A i \in 1..Len(url.ids) :
            isColorOption(url.ids[i]) => url.ids[i] \notin hiddenLabels

\* A pass ran with color 2 selected: it started the prefetch of color 1
\* and left out the hidden colors 3 and 4, whose names differ from "Blue".
C16_Witness ==
    /\ task.op = "idle"
    /\ checked[1] = 2
    /\ Did(log, "prefetch")
    /\ hiddenLabels = {3, 4}
    /\ BagToSet(prefetches) # {}

(***************************************************************************)
(* C17.  As claimed: the prefetches a pass starts are never for the        *)
(* selected color, nor for a color with the display name of the selected   *)
(* color, before or after it in the order of the controls.                 *)
(***************************************************************************)
\* The URLs of which the step starts a prefetch.
Started == {url \in BagToSet(prefetches') :
                CopiesIn(url, prefetches') > CopiesIn(url, prefetches)}

C17_SameNameSkipped ==
    [][task'.op = "idle" =>
          \A url \in Started :
              /\ url.ids[1] # checked[1]
              /\ optionValue(url.ids[1]) # optionValue(checked[1])]_vars

(***************************************************************************)
(* C18.  A task that starts prefetches (a pass) and a task in which a      *)
(* prefetch settles change the cache and the set of outstanding prefetches *)
(* only: no page region is replaced, no notification is emitted, and the   *)
(* address, the checked inputs, the pending request URL and the            *)
(* user-triggered fetches are as before.                                   *)
(***************************************************************************)
C18_PrefetchOnlyCache ==
    [][task'.op \in {"idle", "prefetched"} =>
          /\ \A i \in 1..Len(log') : log'[i] \in {"cacheSet", "prefetch"}
          /\ UNCHANGED <<markup, checked, productUrl, location,
                         pendingRequestUrl, fetches, idleCallbacks>>
                \/ (task'.op = "idle" /\ idleCallbacks' = idleCallbacks - 1
                      /\ UNCHANGED <<markup, checked, productUrl, location,
                                     pendingRequestUrl, fetches>>)]_vars

\* A prefetch response was stored while a user-triggered fetch was
\* outstanding and its pending request URL set.
C18_Witness ==
    /\ task.op = "prefetched"
    /\ task.response = "ok"
    /\ Did(log, "cacheSet")
    /\ fetches # {}
    /\ pendingRequestUrl # undefined

(***************************************************************************)
(* C19.  A prefetch that fails (rejected fetch, response not ok, empty     *)
(* body, no <main>) leaves the cache as it was, does nothing observable,   *)
(* and takes only itself out of the outstanding prefetches: the others     *)
(* stay in flight.                                                         *)
(***************************************************************************)
C19_FailedPrefetchSwallowed ==
    [][(task'.op = "prefetched" /\ task'.response = "failed") =>
          /\ htmlCache' = htmlCache
          /\ log' = <<>>
          /\ \E url \in BagToSet(prefetches) :
                prefetches' = prefetches (-) SetToBag({url})
          /\ UNCHANGED <<markup, checked, productUrl, location,
                         pendingRequestUrl, fetches, idleCallbacks>>]_vars

\* A prefetch failed while another one of a filled cache was in flight.
C19_Witness ==
    /\ task.op = "prefetched"
    /\ task.response = "failed"
    /\ BagToSet(prefetches) # {}
    /\ htmlCache # <<>>

(***************************************************************************)
(* C20.  As claimed: the settling of a user-triggered fetch in a           *)
(* transport failure (rejected fetch, status other than 2xx, empty or      *)
(* malformed body) replaces no page region, emits no variant-updated       *)
(* notification and issues no fetch.                                       *)
(***************************************************************************)
TransportFailure == task.response \in {"networkError", "notOk", "noPayload"}

C20_FailureLeavesPage ==
    (Settled /\ TransportFailure)
        => /\ ~Did(log, "morphMain")
           /\ ~Did(log, "morphPicker")
           /\ ~Did(log, "VariantUpdateEvent")
           /\ ~Did(log, "fetch")

(***************************************************************************)
(* C21.  As claimed: when the body of the response to a user-triggered     *)
(* fetch lacks the variant payload, the handling of the response signals   *)
(* an error (it throws) instead of returning silently.                     *)
(***************************************************************************)
C21_MissingPayloadSignalled ==
    (Settled /\ task.response = "noPayload") => Did(log, "throw")

(***************************************************************************)
(* C22.  As claimed: a store under a key the cache already has replaces    *)
(* the markup of that key and leaves the cache otherwise as it was: the    *)
(* same keys, one entry each, every other entry unchanged, also when the   *)
(* cache is full.                                                          *)
(***************************************************************************)
\* The keys the step stores markup under: the snapshot of a pass, the URL of
\* a prefetch that settled with a response that is stored.
Written ==
    IF ~Did(log', "cacheSet") THEN {}
    ELSE IF task'.op = "idle" THEN {Url(productUrl, FALSE, checked)}
    ELSE IF task'.op = "prefetched" THEN {task'.url}
    ELSE {}

C22_OverwriteInPlace ==
    [][\A key \in Written :
          CacheHas(htmlCache, key) =>
              /\ Len(htmlCache') = Len(htmlCache)
              /\ \A i \in 1..Len(htmlCache) :
                    /\ htmlCache'[i].key = htmlCache[i].key
                    /\ htmlCache[i].key # key => htmlCache'[i] = htmlCache[i]]_vars

(***************************************************************************)
(* C23.  As claimed: the snapshot of the attach-time pass is stored under  *)
(* the key buildRequestUrl builds for the checked inputs in the context of *)
(* the picker: after the pass the cache has an entry for that key.  (Until *)
(* the first change event every pass is the attach-time one.)              *)
(***************************************************************************)
C23_SnapshotUnderRequestKey ==
    [][(task'.op = "idle" /\ selections = 0 /\ Did(log', "cacheSet")) =>
          \A i \in 1..Len(checked) :
              CacheHas(htmlCache', buildRequestUrl(Cur, checked[i]))]_vars

(***************************************************************************)
(* C24.  As claimed: a pass scheduled after a change of size writes no     *)
(* snapshot: it leaves the cache as it is.  (Under SpecFull the            *)
(* attach-time pass has run, so every pass is one scheduled after a        *)
(* change of size.)                                                        *)
(***************************************************************************)
C24_NoSnapshotAfterSizeChange ==
    [][task'.op = "idle" => (~Did(log', "cacheSet") /\ htmlCache' = htmlCache)]_vars

(***************************************************************************)
(* C25.  As claimed: a key whose prefetch has completed, with a stored     *)
(* response or with a failure, is not fetched by a prefetch again while    *)
(* the picker stays attached: the pass that runs right after the prefetch  *)
(* of a key settled starts no prefetch of that key.                        *)
(***************************************************************************)
C25_NoRepeatedPrefetch ==
    [][(task.op = "prefetched" /\ connected /\ task'.op = "idle") =>
          task.url \notin Started]_vars

(***************************************************************************)
(* C26.  Every task that applies markup, from the cache or from a          *)
(* response, replaces exactly one region: <main> (full-page mode) or the   *)
(* picker (partial mode).  In partial mode the picker is replaced before   *)
(* the variant-updated notification is emitted, and at most one is         *)
(* emitted; in full-page mode none is emitted.                             *)
(***************************************************************************)
\* The task applied markup: a response that carries the payload was handled,
\* or a change event was resolved without a fetch.
Applied ==
    \/ Settled /\ CarriesPayload
    \/ task.op = "change" /\ ~Did(log, "fetch")

C26_OneModePerApply ==
    /\ Times(log, "morphMain") + Times(log, "morphPicker") <= 1
    /\ Applied => Times(log, "morphMain") + Times(log, "morphPicker") = 1
    /\ Times(log, "VariantUpdateEvent") <= 1
    /\ Did(log, "morphMain") => ~Did(log, "VariantUpdateEvent")
    /\ \A j \in 1..Len(log) :
          log[j] = "VariantUpdateEvent" =>
              \E i \in 1..(j - 1) : log[i] = "morphPicker"

\* A response was applied in partial mode and announced.
C26_Witness ==
    /\ task.op = "response"
    /\ task.response = "ok"
    /\ Did(log, "morphPicker")
    /\ Did(log, "VariantUpdateEvent")

(***************************************************************************)
(* C27.  As claimed: a change of color that is resolved from the cache and *)
(* applied in partial mode (only the picker is replaced) emits no          *)
(* variant-updated notification.                                           *)
(***************************************************************************)
C27_CachedPartialSilent ==
    (/\ task.op = "change"
     /\ task.isColorChange
     /\ ~Did(log, "fetch")
     /\ Did(log, "morphPicker")) => ~Did(log, "VariantUpdateEvent")

(***************************************************************************)
(* C28.  When the transport settles every fetch, the picker is idle again  *)
(* after the last change event: from some point on no user-triggered       *)
(* fetch is outstanding and no change event is being handled, whatever     *)
(* the outcomes of the fetches and of applying their responses were.       *)
(***************************************************************************)
C28_EventuallyIdle == <>[](fetches = {} /\ event = NoEvent)

\* After the last change event the last outstanding fetch was rejected, and
\* the picker is idle.
C28_Witness ==
    /\ selections = MaxSelections
    /\ task.op = "response"
    /\ task.response = "networkError"
    /\ fetches = {}
    /\ event = NoEvent

C30_QueueDrains ==
    /\ [](imageLoads = EmptyBag => preloadQueue = {})
    /\ \A key \in ColorKeys : (key \in preloadQueue) ~> (key \notin preloadQueue)

\* The images of a color did not load, and the queue is empty.
C30_Witness ==
    /\ task.op = "preloadSettled"
    /\ task.response \in {"error", "timeout"}
    /\ imageLoads = EmptyBag
    /\ preloadQueue = {}
    /\ preloadedImages = {}

(***************************************************************************)
(* C31.  As claimed: in the image preloader at most one settle timer of a  *)
(* hover is pending at any time.  Entering a color control that is not     *)
(* checked leaves the timer of that color as the only one, so the timer of *)
(* a color entered before it never fires; the preload a timer starts is    *)
(* for the color of the control the pointer is on; and while the preloader *)
(* is detached no timer is pending.                                        *)
(***************************************************************************)
\* The color keys of which the step starts loading the images.
PreloadsStarted == {key \in BagToSet(imageLoads') :
                       CopiesIn(key, imageLoads') > CopiesIn(key, imageLoads)}

C31_OneHoverTimer ==
    /\ [](BagCardinality(hoverTimers) <= 1)
    /\ [](~preloaderConnected => hoverTimers = EmptyBag)
    /\ [][/\ (/\ task'.op = "mouseenter"
              /\ hoverListeners > 0
              /\ findColorInput(task'.option) # 0
              /\ checked[closestFieldset(task'.option)] # task'.option)
                => hoverTimers' = SetToBag({optionValue(task'.option)})
          /\ task'.op = "hoverSettled"
                => /\ hovered # 0
                   /\ PreloadsStarted \subseteq {colorKey(optionValue(hovered))}]_vars

(***************************************************************************)
(* C32.  As claimed: in every reachable state each cache entry holds the   *)
(* markup the server renders for its key, that is, for the product and the *)
(* option values the key names; a snapshot taken between a change event    *)
(* and the arrival of its response included.                               *)
(***************************************************************************)
C32_EntryMatchesKey ==
    \A i \in 1..Len(htmlCache) : htmlCache[i].html = Render(htmlCache[i].key)

(***************************************************************************)
(* C33.  As claimed: in every reachable state, for every color a pass      *)
(* would prefetch (visible, not checked, not of the name of the checked    *)
(* color), the key #buildHoverUrl builds for it is the key buildRequestUrl *)
(* builds when the user chooses that color next.                           *)
(***************************************************************************)
C33_HoverKeyIsRequestKey ==
    \A c \in Colors :
        (/\ ~isHidden(Cur, c)
         /\ checked[closestFieldset(c)] # c
         /\ optionValue(c) # optionValue(checked[closestFieldset(c)]))
            => buildHoverUrl(Cur, c) = RequestUrlOf(c)

(***************************************************************************)
(* C34.  As claimed: while the picker is detached its cache has no entry;  *)
(* a prefetch that was in flight at the detach and settles afterwards      *)
(* stores nothing.                                                         *)
(***************************************************************************)
C34_EmptyWhileDetached ==
    /\ ~connected => htmlCache = <<>>
    /\ (~connected /\ task.op = "prefetched") => ~Did(log, "cacheSet")

(***************************************************************************)
(* C35.  As claimed: also after the picker was detached and attached       *)
(* again, one change event is resolved once: once a listener has handled   *)
(* the event, no further selection-changed notification is emitted and no  *)
(* further fetch is issued for it.                                         *)
(***************************************************************************)
C35_ResolvedOnce ==
    [][(event # NoEvent /\ task'.op = "change") =>
          /\ ~Did(log', "VariantSelectedEvent")
          /\ ~Did(log', "fetch")]_vars

(***************************************************************************)
(* C36.  A change event of a picker that is not on a product page proper   *)
(* (it is in a product card or a quick-add dialog, or the template is not  *)
(* the product template) is resolved by a fetch, also when the cache has   *)
(* an entry for its key; the fetch asks for partial mode, the response is  *)
(* applied to the picker alone, and neither the change nor the response    *)
(* changes the address.                                                    *)
(***************************************************************************)
C36_OffProductPageFetches ==
    [][~onProductPage =>
          /\ task'.op = "change" =>
                /\ Times(log', "fetch") = 1
                /\ \A f \in fetches' : f.current => ~f.shouldMorphMain
                /\ ~Did(log', "morphMain")
                /\ ~Did(log', "morphPicker")
          /\ task'.op \in {"response", "staleResponse"} =>
                ~Did(log', "morphMain")
          /\ ~Did(log', "replaceState")
          /\ location' = location]_vars

\* Off the product page a change was resolved by a fetch although the cache
\* holds an entry for its key.
C36_Witness ==
    /\ ~onProductPage
    /\ task.op = "change"
    /\ task.isColorChange
    /\ Did(log, "fetch")
    /\ \E f \in fetches : f.current /\ f.url \in CacheKeys(htmlCache)

(***************************************************************************)
(* C37.  As claimed: on a product page, whenever no user-triggered fetch   *)
(* is outstanding and no change event is being handled, the markup of the  *)
(* picker shows the values the user chose last (the checked inputs), and   *)
(* after a change event the variant parameter of the address is the        *)
(* data-variant-id of one of the values the markup shows.                  *)
(***************************************************************************)
C37_ShownIsSelected ==
    (onProductPage /\ fetches = {} /\ event = NoEvent)
        => /\ markup.ids = checked
           /\ selections > 0 =>
                 \E i \in 1..Len(markup.ids) :
                     location.variant = variantId(markup.ids[i])

(***************************************************************************)
(* C38.  As claimed: a variant-updated notification that reaches the       *)
(* section of the gallery is handled by the gallery instance exactly when  *)
(* the instance is attached at that time, also when it was detached and    *)
(* attached again before.                                                  *)
(***************************************************************************)
C38_HandledIffAttached ==
    [][Did(log', "VariantUpdateEvent") =>
          (Did(log', "handleVariantUpdate") <=> galleryConnected)]_vars

====
